---- MODULE Spec2Model ----
(***************************************************************************)
(* Model of cmd/artifact-proxy-operator/main.go: the HTTP download handler *)
(* (path and token validation, build resolution and authorization, the     *)
(* android / ios dispatch, the binary streaming) and encodeItmsUrl.        *)
(*                                                                         *)
(* Strings are sequences of atoms.  A path is a sequence over              *)
(* {"/", "b", "download"}: "/" is the separator, "download" the literal    *)
(* word and "b" any other non-empty text without a slash.  A raw query is  *)
(* a sequence of <<key, value>> pairs, the text between the '&' signs.     *)
(* All atoms used are unreserved URL characters, so query and path         *)
(* escaping leave them as they are.                                        *)
(***************************************************************************)
EXTENDS Integers, Sequences, FiniteSets, TLC

VARIABLES
    phase,      \* "idle" | "received" | "done": the position of the one request in flight
    url,        \* r.URL: [path, query], query as url.Query() returns it
    rw,         \* the http.ResponseWriter of the request
    calls,      \* the collaborator calls the handler made for this request
    build,      \* what osClient.GetBuild returned: [err, build]
    stream,     \* the artifact stream: [result, copied, closed]
    log,        \* lines printed by the handler
    link,       \* the URL embedded in the landing page written last
    prev,       \* the landing-page request the current request follows
    iphase,     \* encodeItmsUrl on its own: "input" | "encoded"
    inbound,    \* its argument: [path, rawQuery]
    out,        \* its result
    prevIn,     \* the argument of the previous application
    prevOut     \* the result of the previous application

vars == <<phase, url, rw, calls, build, stream, log, link, prev,
          iphase, inbound, out, prevIn, prevOut>>

hvars == <<phase, url, rw, calls, build, stream, log, link, prev>>
ivars == <<iphase, inbound, out, prevIn, prevOut>>

----------------------------------------------------------------------------
(* Bounds *)

MaxPathLen == 5
MaxQuery == 3
MaxRawQuery == 2
StreamLen == 2

(* Program constants *)

StatusOK == 200
StatusBadRequest == 400
StatusForbidden == 403
StatusNotFound == 404
StatusInternalServerError == 500

----------------------------------------------------------------------------
(* Strings *)

PathAtoms == {"/", "b", "download"}
Keys == {"artifact", "plist", "token"}

\* The query parameters a request may carry: a token that is empty or not, a
\* flag that is "true" or not.
Pairs == ({"token"} \X {"", "abc"}) \cup ({"artifact", "plist"} \X {"true", "false"})

SeqsUpTo(S, n) == UNION {[1..k -> S] : k \in 0..n}

\* Request paths always start with a slash.
Paths == {p \in SeqsUpTo(PathAtoms, MaxPathLen) : Len(p) >= 1 /\ p[1] = "/"}

RawQueries(n) == SeqsUpTo(Pairs, n)

\* sort.Strings order of the parameter keys.
SortedKeys == <<"artifact", "plist", "token">>

\* OPERATOR_HOSTNAME
OperatorHostname == "gateway.example.com"

RECURSIVE ValuesOf(_, _)
\* The values of key k in raw query order.
ValuesOf(raw, k) ==
    IF raw = <<>> THEN <<>>
    ELSE (IF Head(raw)[1] = k THEN <<Head(raw)[2]>> ELSE <<>>) \o ValuesOf(Tail(raw), k)

\* url.Query(): a map from each key that occurs to its values in order.
ParseQuery(raw) ==
    [k \in {raw[i][1] : i \in 1..Len(raw)} |-> ValuesOf(raw, k)]

\* Values.Get: the first value of the key, "" when the key is missing.
Get(q, k) == IF k \in DOMAIN q /\ Len(q[k]) > 0 THEN q[k][1] ELSE ""

\* Values.Add
Add(q, k, v) ==
    [x \in DOMAIN q \cup {k} |->
        IF x = k THEN (IF k \in DOMAIN q THEN q[k] ELSE <<>>) \o <<v>> ELSE q[x]]

RECURSIVE EncodeFrom(_, _)
EncodeFrom(q, i) ==
    IF i > Len(SortedKeys) THEN <<>>
    ELSE LET k == SortedKeys[i] IN
         (IF k \in DOMAIN q THEN [j \in 1..Len(q[k]) |-> <<k, q[k][j]>>] ELSE <<>>)
            \o EncodeFrom(q, i + 1)

\* Values.Encode: the pairs sorted by key, the values of a key in their order.
Encode(q) == EncodeFrom(q, 1)

RECURSIVE Split(_)
\* strings.Split(path, "/")
Split(p) ==
    IF \A i \in 1..Len(p) : p[i] # "/" THEN <<p>>
    ELSE LET i == CHOOSE i \in 1..Len(p) : p[i] = "/" /\ \A j \in 1..(i - 1) : p[j] # "/"
         IN <<SubSeq(p, 1, i - 1)>> \o Split(SubSeq(p, i + 1, Len(p)))

----------------------------------------------------------------------------
(* The helpers of main.go *)

\* regexp.MatchString("/.*/download", path): an unanchored match.  The pattern
\* is a valid constant, so the error result is always nil.
validateURLPath(p) ==
    \E i, j \in 1..Len(p) :
        /\ i < j
        /\ p[i] = "/"
        /\ p[j] = "/"
        /\ j + 1 <= Len(p)
        /\ p[j + 1] = "download"

\* A variant that takes the first token when several are given.
parseTokenFirst(q) ==
    IF ~("token" \in DOMAIN q) \/ Len(q["token"]) < 1
    THEN [token |-> "", err |-> <<"invalid request, missing token">>]
    ELSE [token |-> q["token"][1], err |-> <<>>]

parseToken(q) ==
    IF ~("token" \in DOMAIN q) \/ Len(q["token"]) # 1
    THEN [token |-> "", err |-> <<"invalid request, missing token">>]
    ELSE [token |-> q["token"][1], err |-> <<>>]

isArtifactRequest(q) == Get(q, "artifact") = "true"

isPlistRequest(q) == Get(q, "plist") = "true"

\* A variant that keeps the last value of every key.
LastValues(q) == [k \in DOMAIN q |-> <<q[k][Len(q[k])]>>]

\* The loop of encodeItmsUrl: every key of the inbound query with its first value.
\* The map is ranged over in no fixed order; each key is added once, so the
\* order does not show in the result.
FirstValues(q) == [k \in DOMAIN q |-> <<q[k][1]>>]

encodeItmsUrl(p, q) ==
    [scheme |-> "https",
     host |-> OperatorHostname,
     path |-> p,
     rawQuery |-> Encode(Add(FirstValues(q), "plist", "true"))]

----------------------------------------------------------------------------
(* The collaborators: pkg/openshift and pkg/jenkins, seen through their results *)

TokenKey == "token-annotation"
DownloadKey == "download-annotation"
ArtifactURL == "http://store/a.bin"
AuthToken == "service-credential"

BuildTypes == {"android", "ios", "windows", "none"}

\* The annotation maps a build may carry: either key may be missing or empty.
AnnotationMaps ==
    {a \in UNION {[S -> {"", "abc", "xyz", ArtifactURL}] : S \in SUBSET {TokenKey, DownloadKey}} :
        /\ TokenKey \in DOMAIN a => a[TokenKey] \in {"", "abc", "xyz"}
        /\ DownloadKey \in DOMAIN a => a[DownloadKey] \in {"", ArtifactURL}}

ZeroBuild == [Name |-> <<>>, Annotations |-> [k \in {} |-> ""], Type |-> "none"]

NotFoundError == <<"builds", "not found">>
OtherError == <<"connection refused">>

\* osClient.GetBuild(id): the build named id, or an error and no build.
GetBuildResults(id) ==
    {[err |-> e, build |-> ZeroBuild] : e \in {NotFoundError, OtherError}}
    \cup {[err |-> <<>>, build |-> [Name |-> id, Annotations |-> a, Type |-> t]] :
            a \in AnnotationMaps, t \in BuildTypes}

\* osClient.GetBuildType(build): the platform type, or an error when the build has none.
GetBuildType(b) ==
    IF b.Type = "none" THEN [type |-> "", err |-> <<"no build type">>]
    ELSE [type |-> b.Type, err |-> <<>>]

\* jenkinsClient.StreamArtifact and the reads and writes of io.Copy: the call
\* fails, or it returns a stream of StreamLen bytes whose copy ends after
\* failAt bytes (-1: the copy completes) and whose Close may fail.
StreamResults ==
    {[err |-> TRUE, failAt |-> -1, closeErr |-> FALSE]}
    \cup {[err |-> FALSE, failAt |-> k, closeErr |-> c] :
            k \in -1..(StreamLen - 1), c \in BOOLEAN}

NoGetBuild == [err |-> <<>>, build |-> ZeroBuild]
NoStream == [result |-> "none", copied |-> 0, copyErr |-> FALSE, closed |-> 0]
NoLink == [scheme |-> "", host |-> "", path |-> <<>>, rawQuery |-> <<>>]
NoBinary == [wanted |-> FALSE, url |-> "", filename |-> <<>>]
NoCalls == [getBuild |-> <<>>, annotations |-> <<>>, getBuildType |-> 0, streamArtifact |-> <<>>]
NoPrev == [set |-> FALSE, build |-> NoGetBuild, token |-> ""]

----------------------------------------------------------------------------
(* The response writer *)

Rw0 == [status |-> 0, headerWrites |-> 0, contentType |-> "", disposition |-> <<>>,
        kind |-> "none", msg |-> <<>>, n |-> 0]

\* ResponseWriter.WriteHeader: the first status is the one sent.
WriteHeader(w, code) ==
    [w EXCEPT !.status = IF @ = 0 THEN code ELSE @, !.headerWrites = @ + 1]

\* ResponseWriter.Write: sends status 200 first when none was sent.
Write(w, kind, msg, n) ==
    LET w1 == IF w.status = 0 THEN WriteHeader(w, StatusOK) ELSE w
    IN [w1 EXCEPT !.kind = kind, !.msg = msg, !.n = @ + n]

\* http.Error
Error(w, msg, code) ==
    Write(WriteHeader([w EXCEPT !.contentType = "text/plain"], code), "text", msg, 0)

\* The server ends the response when the handler returns: status 200 with an
\* empty body when the handler wrote nothing.
FinishRequest(w) == IF w.status = 0 THEN WriteHeader(w, StatusOK) ELSE w

----------------------------------------------------------------------------
(* handler *)

\* v, ok := m[k]
Lookup(m, k) == [val |-> IF k \in DOMAIN m THEN m[k] ELSE "", ok |-> k \in DOMAIN m]

\* A variant that compares the whole message.
IsNotFoundWhole(err) == err = <<"not found">>

\* Contains(err.Error(), "not found")
IsNotFound(err) == \E i \in 1..Len(err) : err[i] = "not found"

\* A variant that does not look at ok.
TokenRejectedByValue(annotations, token) ==
    LET a == Lookup(annotations, TokenKey) IN a.val # token

TokenRejected(annotations, token) ==
    LET a == Lookup(annotations, TokenKey) IN a.val # token \/ ~a.ok

\* A variant that accepts an empty value.
ArtifactUrlMissingKey(annotations) ==
    LET a == Lookup(annotations, DownloadKey) IN ~a.ok

ArtifactUrlMissing(annotations) ==
    LET a == Lookup(annotations, DownloadKey) IN ~a.ok \/ a.val = ""

\* A variant that tests the plist flag first.
RequestIntentPlistFirst(q) ==
    IF isPlistRequest(q) THEN "manifest"
    ELSE IF isArtifactRequest(q) THEN "binary"
    ELSE "landing"

\* The order of the tests in the ios case.
RequestIntent(q) ==
    IF isArtifactRequest(q) THEN "binary"
    ELSE IF isPlistRequest(q) THEN "manifest"
    ELSE "landing"

\* handler up to the GetBuild call.
handlerRequest(u) ==
    IF ~validateURLPath(u.path)
    THEN [done |-> TRUE, id |-> <<>>, token |-> "",
          rw |-> Error(Rw0, <<"bad request. route should be called with /<build-id>/download?token=eg-token">>, StatusBadRequest)]
    ELSE LET t == parseToken(u.query) IN
         IF t.err # <<>>
         THEN [done |-> TRUE, id |-> <<>>, token |-> "", rw |-> Error(Rw0, t.err, StatusBadRequest)]
         ELSE LET splitPath == Split(u.path) IN
              IF Len(splitPath) < 2
              THEN [done |-> TRUE, id |-> <<>>, token |-> "",
                    rw |-> Error(Rw0, <<"unable to parse build name from path">>, StatusInternalServerError)]
              ELSE [done |-> FALSE, id |-> splitPath[2], token |-> t.token, rw |-> Rw0]

\* handler from the result gb of GetBuild(id) to the response or to the call of
\* handleBinaryResponse.
handlerBuild(u, id, token, gb) ==
    LET b == gb.build
        c0 == [NoCalls EXCEPT !.getBuild = <<id>>]
        c1 == [c0 EXCEPT !.annotations = <<TokenKey>>]
        c2 == [c1 EXCEPT !.annotations = <<TokenKey, DownloadKey>>]
        c3 == [c2 EXCEPT !.getBuildType = 1]
        artifactUrl == Lookup(b.Annotations, DownloadKey).val
        buildType == GetBuildType(b)
        end(w, c, k) == [rw |-> w, calls |-> c, link |-> k, binary |-> NoBinary]
        binary(ext) ==
            [rw |-> Rw0, calls |-> c3, link |-> NoLink,
             binary |-> [wanted |-> TRUE, url |-> artifactUrl, filename |-> b.Name \o <<ext>>]]
    IN
    IF gb.err # <<>> THEN
        IF IsNotFound(gb.err)
        THEN end(Error(Rw0, <<"no resources found for build">> \o id, StatusNotFound), c0, NoLink)
        ELSE end(Error(Rw0, <<"error fetching build">> \o b.Name, StatusInternalServerError), c0, NoLink)
    ELSE IF TokenRejected(b.Annotations, token)
    THEN end(Error(Rw0, <<"invalid token provided for build">> \o b.Name, StatusForbidden), c1, NoLink)
    ELSE IF ArtifactUrlMissing(b.Annotations)
    THEN end(Error(Rw0, <<"missing annotation on build object">>, StatusInternalServerError), c2, NoLink)
    ELSE IF buildType.err # <<>>
    THEN end(Error(Rw0, <<"no build type found for build", "%s">>, StatusBadRequest), c3, NoLink)
    ELSE IF buildType.type = "android" THEN binary(".apk")
    ELSE IF buildType.type = "ios" THEN
        CASE RequestIntent(u.query) = "binary" -> binary(".ipa")
          [] RequestIntent(u.query) = "manifest" ->
                end(Write([Rw0 EXCEPT !.contentType = "application/xml"],
                          "xml", b.Name \o <<token>>, 0), c3, NoLink)
          [] OTHER ->
                end(Write([Rw0 EXCEPT !.contentType = "text/html"], "html", <<>>, 0),
                    c3, encodeItmsUrl(u.path, u.query))
    ELSE end(Error(Rw0, <<"invalid build type found for build", "%s">>, StatusBadRequest), c3, NoLink)

\* A variant that closes the stream after the copy instead of deferring the Close.
handleBinaryResponseCloseLast(w, artifactUrl, filename, so) ==
    IF so.err
    THEN [rw |-> Error(w, <<"error when streaming atifact">>, StatusInternalServerError),
          stream |-> [NoStream EXCEPT !.result = "error"],
          log |-> {}]
    ELSE LET w1 == [w EXCEPT !.contentType = "octet/stream", !.disposition = filename]
             copied == IF so.failAt < 0 THEN StreamLen ELSE so.failAt
             w2 == IF copied > 0 THEN Write(w1, "octets", <<>>, copied) ELSE w1
         IN [rw |-> w2,
             stream |-> [result |-> "ok", copied |-> copied, copyErr |-> so.failAt >= 0,
                         closed |-> IF so.failAt >= 0 THEN 0 ELSE 1],
             log |-> (IF so.failAt >= 0 THEN {"error writing download of application binary"} ELSE {})
                     \cup (IF so.closeErr /\ so.failAt < 0 THEN {"error. failed to close file handle"} ELSE {})]

handleBinaryResponse(w, artifactUrl, filename, so) ==
    IF so.err
    THEN [rw |-> Error(w, <<"error when streaming atifact">>, StatusInternalServerError),
          stream |-> [NoStream EXCEPT !.result = "error"],
          log |-> {}]
    ELSE LET w1 == [w EXCEPT !.contentType = "octet/stream", !.disposition = filename]
             copied == IF so.failAt < 0 THEN StreamLen ELSE so.failAt
             w2 == IF copied > 0 THEN Write(w1, "octets", <<>>, copied) ELSE w1
         IN [rw |-> w2,
             stream |-> [result |-> "ok", copied |-> copied, copyErr |-> so.failAt >= 0,
                         closed |-> 1],
             log |-> (IF so.failAt >= 0 THEN {"error writing download of application binary"} ELSE {})
                     \cup (IF so.closeErr THEN {"error. failed to close file handle"} ELSE {})]

----------------------------------------------------------------------------
(* The request handling state machine *)

Respond(w, c, gb, s, l, k) ==
    /\ rw' = FinishRequest(w)
    /\ calls' = c
    /\ build' = gb
    /\ stream' = s
    /\ log' = l
    /\ link' = k
    /\ phase' = "done"

Init ==
    /\ phase = "idle"
    /\ url = [path |-> <<"/">>, query |-> ParseQuery(<<>>)]
    /\ rw = Rw0
    /\ calls = NoCalls
    /\ build = NoGetBuild
    /\ stream = NoStream
    /\ log = {}
    /\ link = NoLink
    /\ prev = NoPrev
    /\ iphase = "input"
    /\ inbound = [path |-> <<"/">>, rawQuery |-> <<>>]
    /\ out = NoLink
    /\ prevIn = inbound
    /\ prevOut = NoLink

\* A request arrives.
NewRequest ==
    /\ phase = "idle"
    /\ \E p \in Paths, raw \in RawQueries(MaxQuery) :
          url' = [path |-> p, query |-> ParseQuery(raw)]
    /\ phase' = "received"
    /\ UNCHANGED <<rw, calls, build, stream, log, link, prev, ivars>>

\* The whole of handler, with the results of the collaborators it calls.
Handle ==
    /\ phase = "received"
    /\ \E s1 \in {handlerRequest(url)} :
         IF s1.done THEN Respond(s1.rw, NoCalls, NoGetBuild, NoStream, {}, NoLink)
         ELSE \E gb \in GetBuildResults(s1.id) :
              \E s2 \in {handlerBuild(url, s1.id, s1.token, gb)} :
                IF ~s2.binary.wanted
                THEN Respond(s2.rw, s2.calls, gb, NoStream, {}, s2.link)
                ELSE \E so \in StreamResults :
                     \E s3 \in {handleBinaryResponse(s2.rw, s2.binary.url, s2.binary.filename, so)} :
                       Respond(s3.rw,
                               [s2.calls EXCEPT !.streamArtifact = <<<<s2.binary.url, AuthToken>>>>],
                               gb, s3.stream, s3.log, NoLink)
    /\ UNCHANGED <<url, prev, ivars>>

\* The client that received the landing page requests the URL embedded in it.
FollowLink ==
    /\ phase = "done"
    /\ rw.kind = "html"
    /\ url' = [path |-> link.path, query |-> ParseQuery(link.rawQuery)]
    /\ prev' = [set |-> TRUE, build |-> build, token |-> parseToken(url.query).token]
    /\ phase' = "received"
    /\ rw' = Rw0
    /\ calls' = NoCalls
    /\ build' = NoGetBuild
    /\ stream' = NoStream
    /\ log' = {}
    /\ link' = NoLink
    /\ UNCHANGED ivars

\* The request is over; nothing of it is kept.
Done ==
    /\ phase = "done"
    /\ phase' = "idle"
    /\ url' = [path |-> <<"/">>, query |-> ParseQuery(<<>>)]
    /\ rw' = Rw0
    /\ calls' = NoCalls
    /\ build' = NoGetBuild
    /\ stream' = NoStream
    /\ log' = {}
    /\ link' = NoLink
    /\ prev' = NoPrev
    /\ UNCHANGED ivars

Next == NewRequest \/ Handle \/ FollowLink \/ Done

Spec == Init /\ [][Next]_vars

----------------------------------------------------------------------------
(* encodeItmsUrl applied to any inbound URL *)

InitItms ==
    /\ phase = "idle"
    /\ url = [path |-> <<"/">>, query |-> ParseQuery(<<>>)]
    /\ rw = Rw0
    /\ calls = NoCalls
    /\ build = NoGetBuild
    /\ stream = NoStream
    /\ log = {}
    /\ link = NoLink
    /\ prev = NoPrev
    /\ iphase = "input"
    /\ inbound \in [path : Paths, rawQuery : RawQueries(MaxRawQuery)]
    /\ out = NoLink
    /\ prevIn = inbound
    /\ prevOut = NoLink

EncodeItms ==
    /\ iphase = "input"
    /\ out' = encodeItmsUrl(inbound.path, ParseQuery(inbound.rawQuery))
    /\ iphase' = "encoded"
    /\ UNCHANGED <<inbound, prevIn, prevOut, hvars>>

\* The same parameters arrive in another order: two neighbours change places.
Reorder ==
    /\ iphase = "encoded"
    /\ \E i \in 1..(Len(inbound.rawQuery) - 1) :
          inbound' = [inbound EXCEPT !.rawQuery =
                        [@ EXCEPT ![i] = inbound.rawQuery[i + 1], ![i + 1] = inbound.rawQuery[i]]]
    /\ prevIn' = inbound
    /\ prevOut' = out
    /\ out' = NoLink
    /\ iphase' = "input"
    /\ UNCHANGED hvars

NextItms == EncodeItms \/ Reorder

SpecItms == InitItms /\ [][NextItms]_vars

----------------------------------------------------------------------------
(* What the properties speak of, read off the request, the resolved build and *)
(* the response without the helpers of the handler                            *)

\* /<segment>/download with one non-empty segment free of slashes.
WellFormedPath(p) ==
    /\ Len(p) >= 4
    /\ p[1] = "/"
    /\ p[Len(p) - 1] = "/"
    /\ p[Len(p)] = "download"
    /\ \A i \in 2..(Len(p) - 2) : p[i] # "/"

\* The text between the first and the second slash of the path.
RequestedId(p) ==
    LET later == {i \in 2..Len(p) : p[i] = "/"}
    IN IF later = {} THEN SubSeq(p, 2, Len(p))
       ELSE SubSeq(p, 2, (CHOOSE i \in later : \A j \in later : i <= j) - 1)

TokenParams(q) == IF "token" \in DOMAIN q THEN q["token"] ELSE <<>>

Flag(q, k) == k \in DOMAIN q /\ q[k][1] = "true"

EndsWith(msg, id) ==
    Len(msg) >= Len(id) /\ SubSeq(msg, Len(msg) - Len(id) + 1, Len(msg)) = id

Handled == phase = "done"

\* The requests on which the path rule and the non-empty token rule play no part.
PlainRequest ==
    /\ WellFormedPath(url.path)
    /\ \A i \in 1..Len(TokenParams(url.query)) : TokenParams(url.query)[i] # ""
Resolved == calls.getBuild # <<>> /\ build.err = <<>>
Annotation == build.build.Annotations
TokenAnnotationPresent == TokenKey \in DOMAIN Annotation
TokenMatches ==
    /\ TokenAnnotationPresent
    /\ Len(TokenParams(url.query)) = 1
    /\ Annotation[TokenKey] = TokenParams(url.query)[1]
DownloadPresent == DownloadKey \in DOMAIN Annotation /\ Annotation[DownloadKey] # ""
TypeRecognized == build.build.Type \in {"android", "ios"}
Streamed == calls.streamArtifact # <<>>
Dispatched == Streamed \/ rw.kind \in {"xml", "html"}
ReachedDownloadCheck == \E i \in 1..Len(calls.annotations) : calls.annotations[i] = DownloadKey

----------------------------------------------------------------------------
(* C1 *)

\* C1: every request whose path is not /<segment>/download with one non-empty
\* segment is answered 400, with no GetBuild call and no StreamArtifact call.
C1_MalformedPathRejected ==
    (Handled /\ ~WellFormedPath(url.path))
        => (rw.status = StatusBadRequest /\ calls.getBuild = <<>> /\ ~Streamed)

(* C2 *)

\* C2: a request with no token parameter, or with more than one, is answered
\* 400 and GetBuild is not called for it.
C2_TokenCountChecked ==
    (Handled /\ Len(TokenParams(url.query)) # 1)
        => (rw.status = StatusBadRequest /\ calls.getBuild = <<>>)

\* A request with a well-formed path and two token parameters was answered 400.
C2_Witness ==
    /\ Handled
    /\ WellFormedPath(url.path)
    /\ Len(TokenParams(url.query)) = 2
    /\ rw.status = StatusBadRequest

(* C3 *)

\* C3: the handler goes on to the download annotation, the dispatch, the
\* stream or a document exactly for the requests whose token is non-empty and
\* equal to the token annotation present on the resolved build.  Stated for
\* the requests with a well-formed path, where the path rule plays no part.
C3_AuthorizedIffTokenMatches ==
    (Handled /\ WellFormedPath(url.path)) =>
        /\ (ReachedDownloadCheck \/ Dispatched)
              => (TokenMatches /\ TokenParams(url.query)[1] # "")
        /\ (Resolved /\ TokenMatches /\ TokenParams(url.query)[1] # "")
              => ReachedDownloadCheck

(* C4 *)

\* C4: for a resolved build the outcome is decided in this order: 403 when the
\* token annotation is missing or differs from the token, else 500 when the
\* download annotation is missing or empty, else 400 when the platform type is
\* not recognized, else the dispatch.
C4_OutcomeOrder ==
    (Handled /\ Resolved) =>
        IF ~TokenMatches THEN rw.status = StatusForbidden /\ ~Dispatched
        ELSE IF ~DownloadPresent THEN rw.status = StatusInternalServerError /\ ~Dispatched
        ELSE IF ~TypeRecognized THEN rw.status = StatusBadRequest /\ ~Dispatched
        ELSE Dispatched

\* A wrong token was answered 403 on a build that also lacks the download
\* annotation and the platform type.
C4_Witness ==
    /\ Handled
    /\ Resolved
    /\ ~TokenMatches
    /\ ~(DownloadKey \in DOMAIN Annotation)
    /\ build.build.Type = "none"
    /\ rw.status = StatusForbidden

(* C5 *)

\* C5: when GetBuild fails the answer is 404 naming the requested id if the
\* build does not exist and 500 otherwise; no annotation is read, no type is
\* classified and nothing is streamed.
C5_ResolveFailure ==
    (Handled /\ calls.getBuild # <<>> /\ build.err # <<>>) =>
        /\ calls.getBuild = <<RequestedId(url.path)>>
        /\ IF build.err = NotFoundError
           THEN /\ rw.status = StatusNotFound
                /\ EndsWith(rw.msg, RequestedId(url.path))
                /\ Len(rw.msg) > Len(RequestedId(url.path))
           ELSE rw.status = StatusInternalServerError
        /\ calls.annotations = <<>>
        /\ calls.getBuildType = 0
        /\ ~Streamed

\* The build of a well-formed request did not exist and the answer was 404.
C5_Witness ==
    /\ Handled
    /\ WellFormedPath(url.path)
    /\ RequestedId(url.path) = <<"b">>
    /\ build.err = NotFoundError
    /\ rw.status = StatusNotFound

(* C6 *)

\* The one StreamArtifact call of a binary response, and its headers once the
\* stream is open.
BinaryAction(ext) ==
    /\ calls.streamArtifact = <<<<Annotation[DownloadKey], AuthToken>>>>
    /\ rw.kind \notin {"xml", "html"}
    /\ stream.result = "ok" =>
          /\ rw.status = StatusOK
          /\ rw.contentType = "octet/stream"
          /\ rw.disposition = build.build.Name \o <<ext>>

\* C6: an authorized request with a non-empty artifact location gets the one
\* action of the table: android streams <name>.apk; ios with artifact=true
\* streams <name>.ipa; ios with plist=true and not artifact=true gets the
\* manifest as application/xml; ios with neither gets the landing page as
\* text/html; any other type gets 400; only the first two call StreamArtifact.
C6_DispatchTable ==
    (Handled /\ Resolved /\ TokenMatches /\ DownloadPresent) =>
        CASE build.build.Type = "android" -> BinaryAction(".apk")
          [] build.build.Type = "ios" /\ Flag(url.query, "artifact") -> BinaryAction(".ipa")
          [] build.build.Type = "ios" /\ ~Flag(url.query, "artifact") /\ Flag(url.query, "plist") ->
                /\ rw.status = StatusOK
                /\ rw.contentType = "application/xml"
                /\ rw.kind = "xml"
                /\ ~Streamed
          [] build.build.Type = "ios" /\ ~Flag(url.query, "artifact") /\ ~Flag(url.query, "plist") ->
                /\ rw.status = StatusOK
                /\ rw.contentType = "text/html"
                /\ rw.kind = "html"
                /\ ~Streamed
          [] OTHER ->
                /\ rw.status = StatusBadRequest
                /\ rw.kind = "text"
                /\ ~Streamed

\* An ios request carrying both artifact=true and plist=true was streamed as .ipa.
C6_Witness ==
    /\ Handled
    /\ Resolved
    /\ TokenMatches
    /\ DownloadPresent
    /\ build.build.Type = "ios"
    /\ Flag(url.query, "artifact")
    /\ Flag(url.query, "plist")
    /\ stream.result = "ok"
    /\ rw.disposition = build.build.Name \o <<".ipa">>

(* C7 *)

\* The value of the first parameter of the raw query with key k.
FirstOf(raw, k) ==
    raw[CHOOSE i \in 1..Len(raw) : raw[i][1] = k /\ \A j \in 1..(i - 1) : raw[j][1] # k][2]

RawKeys(raw) == {raw[i][1] : i \in 1..Len(raw)}

KeyRank(k) == CHOOSE i \in 1..Len(SortedKeys) : SortedKeys[i] = k

\* The result has scheme https, the operator's host, the inbound path, and a
\* query of every inbound key with its first value plus plist=true, in key order.
ItmsShape ==
    LET raw == inbound.rawQuery
        q == out.rawQuery
    IN /\ out.scheme = "https"
       /\ out.host = OperatorHostname
       /\ out.path = inbound.path
       /\ \A k \in RawKeys(raw) : \E i \in 1..Len(q) : q[i] = <<k, FirstOf(raw, k)>>
       /\ \E i \in 1..Len(q) : q[i] = <<"plist", "true">>
       /\ Len(q) = Cardinality(RawKeys(raw)) + 1
       /\ \A i, j \in 1..Len(q) : i < j => KeyRank(q[i][1]) <= KeyRank(q[j][1])
       /\ (inbound.path = <<"/", "b", "/", "download">> /\ raw = << <<"token", "abc">> >>)
            => q = << <<"plist", "true">>, <<"token", "abc">> >>

Reordered == iphase = "encoded" /\ prevOut # NoLink

\* C7 as claimed: the shape above, and the same result for every ordering of
\* the inbound query parameters.
C7_SameForEveryOrdering ==
    iphase = "encoded" => (ItmsShape /\ (Reordered => out = prevOut))

\* C7 as amended: the shape above, and the same result for every ordering of
\* the inbound query parameters that leaves each key its first value.
C7_SameForOrderingsKeepingFirstValues ==
    iphase = "encoded" =>
        /\ ItmsShape
        /\ (Reordered /\ \A k \in RawKeys(inbound.rawQuery) :
                            FirstOf(inbound.rawQuery, k) = FirstOf(prevIn.rawQuery, k))
              => out = prevOut

\* Two parameters with different keys changed places and the URL was built again.
C7_Witness ==
    /\ Reordered
    /\ Len(inbound.rawQuery) = 2
    /\ inbound.rawQuery[1][1] # inbound.rawQuery[2][1]
    /\ inbound.rawQuery # prevIn.rawQuery
    /\ out = prevOut
    /\ WellFormedPath(inbound.path)

(* C8 *)

Rejected == calls.getBuild = <<>>
BuildNotFound == calls.getBuild # <<>> /\ build.err = NotFoundError
DirectoryError == calls.getBuild # <<>> /\ build.err # <<>> /\ build.err # NotFoundError
TokenFailure == Resolved /\ ~TokenMatches
AnnotationFailure == Resolved /\ TokenMatches /\ ~DownloadPresent
TypeFailure == Resolved /\ TokenMatches /\ DownloadPresent /\ ~TypeRecognized
FetchFailure == stream.result = "error"
CopyFailure == stream.result = "ok" /\ stream.copyErr
Failure ==
    \/ Rejected \/ BuildNotFound \/ DirectoryError \/ TokenFailure
    \/ AnnotationFailure \/ TypeFailure \/ FetchFailure \/ CopyFailure

\* C8 as claimed: every failure ends in exactly one response with the status
\* of its class (400 malformed request, 403 token, 404 unknown build, 500
\* directory or fetch error, missing annotation, unclassifiable type, copy
\* failure), never a success status and never a partial body.  Stated for the
\* requests with a well-formed path and no empty token.
C8_FailureStatus ==
    (Handled /\ Failure /\ PlainRequest) =>
        /\ rw.headerWrites = 1
        /\ rw.status = (CASE Rejected -> StatusBadRequest
                          [] TokenFailure -> StatusForbidden
                          [] BuildNotFound -> StatusNotFound
                          [] OTHER -> StatusInternalServerError)
        /\ rw.kind = "text"

\* C8 as amended: every failure found before the copy of the stream starts
\* ends in exactly one response with an error status and a text body: 400 for
\* a rejected path or token and for a missing or unrecognized platform type,
\* 403 token, 404 unknown build, 500 directory or fetch error and missing
\* download annotation.  A copy failure is logged only: the response keeps
\* status 200 with the octet-stream headers and the bytes copied so far.
C8_FailureStatusBeforeCopy ==
    (Handled /\ Failure) =>
        /\ rw.headerWrites = 1
        /\ IF CopyFailure
           THEN /\ rw.status = StatusOK
                /\ rw.contentType = "octet/stream"
                /\ rw.n = stream.copied
                /\ rw.n < StreamLen
                /\ "error writing download of application binary" \in log
           ELSE /\ rw.status = (CASE Rejected -> StatusBadRequest
                                  [] TypeFailure -> StatusBadRequest
                                  [] TokenFailure -> StatusForbidden
                                  [] BuildNotFound -> StatusNotFound
                                  [] OTHER -> StatusInternalServerError)
                /\ rw.kind = "text"

\* The copy of an open stream failed after the first byte was sent.
C8_Witness ==
    /\ Handled
    /\ CopyFailure
    /\ rw.n = 1
    /\ rw.status = StatusOK

(* C9 *)

\* C9: a stream that StreamArtifact returned is closed exactly once by the
\* time the handler returns, whether the copy completed or failed; when
\* StreamArtifact fails the answer is 500 without the octet-stream and
\* content-disposition headers, and nothing is closed.
C9_StreamClosedOnce ==
    Handled =>
        /\ Streamed <=> stream.result # "none"
        /\ stream.result = "ok" => stream.closed = 1
        /\ stream.result = "error" =>
              /\ rw.status = StatusInternalServerError
              /\ rw.contentType # "octet/stream"
              /\ rw.disposition = <<>>
              /\ stream.closed = 0
        /\ stream.result = "none" => stream.closed = 0

\* The copy failed mid-stream and the stream was closed.
C9_Witness ==
    /\ Handled
    /\ stream.result = "ok"
    /\ stream.copyErr
    /\ stream.copied = 1
    /\ stream.closed = 1

(* C10 *)

\* C10: the URL embedded in a landing page, requested again against the same
\* build, carries the one token of the first request, is a plist request and
\* is answered with the manifest document.  Stated for the requests with a
\* well-formed path and no empty token.
C10_LinkYieldsManifest ==
    (Handled /\ prev.set /\ build = prev.build /\ PlainRequest) =>
        /\ TokenParams(url.query) = <<prev.token>>
        /\ Flag(url.query, "plist")
        /\ rw.status = StatusOK
        /\ rw.contentType = "application/xml"
        /\ rw.kind = "xml"
        /\ ~Streamed

====
